---- MODULE Spec2Model ----
(***************************************************************************)
(* Model of src/src/js/app.js: the task store (GerenciadorTarefas), the    *)
(* project store (GerenciadorProjetos) and the storage adapter             *)
(* (GerenciadorArmazenamento) of the task/project tracker.                 *)
(*                                                                         *)
(* JavaScript strings are sequences of character codes ("Work" is          *)
(* <<87,111,114,107>>), so that trim() and toLowerCase() are computed.     *)
(* The enumerated values of the HTML controls (priorities, filters) are    *)
(* TLA+ strings.  null is NULL; an optional object (tarefaEditando,        *)
(* projetoEditando) is a sequence of length 0 (null) or 1 (the object).    *)
(*                                                                         *)
(* The text typed into a form is an input of the submit handler: the       *)
(* handlers read the DOM fields when they run, and the user may have put   *)
(* any text there.  The value of the project <select> is one of its        *)
(* options, which are state (opcoesProjeto).                               *)
(***************************************************************************)
EXTENDS Integers, Sequences, FiniteSets, TLC

\* ------------------------------------------------------------- bounds
MaxTarefas == 2
MaxProjetos == 2
MaxRelogio == 2
MaxLista == 3

\* ------------------------------------------------------------ values
NULL == <<-1>>
VAZIO == <<>>
Todos == <<116, 111, 100, 111, 115>>

PrefixoTarefa == 116
PrefixoProjeto == 112
Espaco == 32

Prioridades == {"alta", "media", "baixa"}
Filtros == {"todas", "pendentes", "concluidas", "alta", "media", "baixa"}

\* The filter controls clicked while the stores are edited.
FiltrosClicados == {"todas", "pendentes"}

\* Math.random().toString(36).substr(2, 9): the suffix a draw gives.  Every
\* draw gives the same one, so that ids differ by their Date.now() part only.
Sufixos == {0}

\* Texts typed into the forms.
NomesDigitados == { <<>>, <<87, 111>>, <<32, 119, 111>>, <<72>> }

\* What the user puts into the task form besides the project: title,
\* description, due date, priority.
FormulariosDigitados ==
  { [titulo |-> t, descricao |-> <<>>, dataVencimento |-> <<>>,
     prioridade |-> "media"] : t \in {<<>>, <<32, 32>>} }
  \cup
  { [titulo |-> <<65>>, descricao |-> <<>>, dataVencimento |-> <<>>,
     prioridade |-> "alta"],
    [titulo |-> <<32, 66, 32>>, descricao |-> <<100, 32>>,
     dataVencimento |-> <<50, 48>>, prioridade |-> "baixa"]
  }

\* ------------------------------------------------- String.prototype
TrimNada(s) == s

RECURSIVE TrimStart(_)
TrimStart(s) ==
  IF s # <<>> /\ Head(s) = Espaco THEN TrimStart(Tail(s)) ELSE s

RECURSIVE TrimEnd(_)
TrimEnd(s) ==
  IF s # <<>> /\ s[Len(s)] = Espaco
  THEN TrimEnd(SubSeq(s, 1, Len(s) - 1))
  ELSE s

Trim(s) == TrimEnd(TrimStart(s))

LowerCode(c) == IF c \in 65..90 THEN c + 32 ELSE c

RECURSIVE ToLowerCase(_)
ToLowerCase(s) ==
  IF s = <<>> THEN <<>>
  ELSE <<LowerCode(Head(s))>> \o ToLowerCase(Tail(s))

\* new Date().toISOString() at clock value t.
ToISOString(t) == <<50, 48, t>>

\* ------------------------------------------------------- Array helpers
RECURSIVE FindIndexFrom(_, _, _)
FindIndexFrom(seq, id, i) ==
  IF i > Len(seq) THEN 0
  ELSE IF seq[i].id = id THEN i
  ELSE FindIndexFrom(seq, id, i + 1)

\* Array.prototype.findIndex((x) => x.id === id); 0 stands for -1.
FindIndex(seq, id) == FindIndexFrom(seq, id, 1)

\* Array.prototype.splice(indice, 1)
Splice(seq, indice) ==
  SubSeq(seq, 1, indice - 1) \o SubSeq(seq, indice + 1, Len(seq))

Ids(seq) == { seq[i].id : i \in 1..Len(seq) }

\* ------------------------------------------- JSON.stringify / JSON.parse
\* The JSON text of a value, by the value's runtime type: a string as a
\* quoted string, a boolean as true/false, null as null.
JNull == [t |-> "null", v |-> <<>>]
JString(s) == [t |-> "string", v |-> s]
JBoolean(b) == [t |-> "boolean", v |-> IF b THEN "true" ELSE "false"]

JNullableVazio(x) == IF x = NULL THEN JString(<<>>) ELSE JString(x)

JNullable(x) == IF x = NULL THEN JNull ELSE JString(x)

StringifyTarefa(t) ==
  [ id |-> JString(t.id),
    titulo |-> JString(t.titulo),
    descricao |-> JString(t.descricao),
    dataVencimento |-> JString(t.dataVencimento),
    prioridade |-> JString(t.prioridade),
    projetoId |-> JNullable(t.projetoId),
    concluida |-> JBoolean(t.concluida),
    dataCriacao |-> JString(t.dataCriacao) ]

StringifyProjeto(p) ==
  [ id |-> JString(p.id),
    nome |-> JString(p.nome),
    dataCriacao |-> JString(p.dataCriacao) ]

StringifyTarefas(ts) == [i \in 1..Len(ts) |-> StringifyTarefa(ts[i])]
StringifyProjetos(ps) == [i \in 1..Len(ps) |-> StringifyProjeto(ps[i])]

ParseString(j) == IF j.t = "null" THEN NULL ELSE j.v
ParseBoolean(j) == j.v = "true"

ParseTarefa(j) ==
  [ id |-> ParseString(j.id),
    titulo |-> ParseString(j.titulo),
    descricao |-> ParseString(j.descricao),
    dataVencimento |-> ParseString(j.dataVencimento),
    prioridade |-> j.prioridade.v,
    projetoId |-> ParseString(j.projetoId),
    concluida |-> ParseBoolean(j.concluida),
    dataCriacao |-> ParseString(j.dataCriacao) ]

ParseProjeto(j) ==
  [ id |-> ParseString(j.id),
    nome |-> ParseString(j.nome),
    dataCriacao |-> ParseString(j.dataCriacao) ]

ParseTarefas(txt) == [i \in 1..Len(txt) |-> ParseTarefa(txt[i])]
ParseProjetos(txt) == [i \in 1..Len(txt) |-> ParseProjeto(txt[i])]

\* A text is the sequence of its pieces: the object texts of a list, and,
\* where the text was cut or overwritten, a piece that is no JSON.
JCortado == [t |-> "cortado", v |-> <<>>]

\* JSON.parse(txt) returns (it throws a SyntaxError otherwise).
Analisavel(txt) == \A i \in 1..Len(txt) : "t" \notin DOMAIN txt[i]

\* JSON.parse(txt) of a text it accepts: each object by the fields it has.
JSONParse(txt) ==
  [ i \in 1..Len(txt) |->
      IF "titulo" \in DOMAIN txt[i] THEN ParseTarefa(txt[i])
      ELSE ParseProjeto(txt[i]) ]

\* ------------------------------------------ GerenciadorArmazenamento
\* localStorage: each key is absent or holds a text.
Ausente == [presente |-> FALSE, texto |-> <<>>]
ArmazenamentoVazio == [tarefas |-> Ausente, projetos |-> Ausente]

SalvarDescartado(store, chave, texto, falha) == store

SalvarApagandoNaFalha(store, chave, texto, falha) ==
  IF falha THEN [store EXCEPT ![chave] = Ausente]
  ELSE [store EXCEPT ![chave] = [presente |-> TRUE, texto |-> texto]]

\* salvar(chave, dados): setItem throws when `falha`; the catch logs and
\* the stored value stays.
Salvar(store, chave, texto, falha) ==
  IF falha THEN store
  ELSE [store EXCEPT ![chave] = [presente |-> TRUE, texto |-> texto]]

CarregarDevolvendoNull(entrada, valorPadrao, falhaLeitura) ==
  IF falhaLeitura \/ ~entrada.presente THEN valorPadrao
  ELSE IF ~Analisavel(entrada.texto) THEN NULL
  ELSE JSONParse(entrada.texto)

\* carregar(chave, valorPadrao), entrada being what localStorage has under
\* the key: getItem throws when `falhaLeitura` (the storage is not
\* available) and the catch returns the default; null from getItem returns
\* the default; a SyntaxError of JSON.parse is caught and returns it too.
Carregar(entrada, valorPadrao, falhaLeitura) ==
  IF falhaLeitura THEN valorPadrao
  ELSE IF ~entrada.presente THEN valorPadrao
  ELSE IF ~Analisavel(entrada.texto) THEN valorPadrao
  ELSE JSONParse(entrada.texto)

\* carregar("tarefas", []), the read succeeding.
CarregarTarefas(store) == Carregar(store.tarefas, <<>>, FALSE)

\* carregar("projetos", []), the read succeeding.
CarregarProjetos(store) == Carregar(store.projetos, <<>>, FALSE)

\* ------------------------------------------------ filtering and sorting
PassaProjeto(t, ativo) == ativo = Todos \/ t.projetoId = ativo

PassaFiltroSemConcluidas(t, filtro) ==
  CASE filtro = "pendentes" -> ~t.concluida
    [] filtro = "alta" -> t.prioridade = "alta"
    [] filtro = "media" -> t.prioridade = "media"
    [] filtro = "baixa" -> t.prioridade = "baixa"
    [] OTHER -> TRUE

PassaFiltro(t, filtro) ==
  CASE filtro = "pendentes" -> ~t.concluida
    [] filtro = "concluidas" -> t.concluida
    [] filtro = "alta" -> t.prioridade = "alta"
    [] filtro = "media" -> t.prioridade = "media"
    [] filtro = "baixa" -> t.prioridade = "baixa"
    [] OTHER -> TRUE

ObterTarefasFiltradas(ts, ativo, filtro) ==
  LET doProjeto == SelectSeq(ts, LAMBDA t : PassaProjeto(t, ativo))
  IN SelectSeq(doProjeto, LAMBDA t : PassaFiltro(t, filtro))

PesoPrioridade == [alta |-> 3, media |-> 2, baixa |-> 1]

CompararCrescente(a, b) ==
  IF a.concluida # b.concluida
  THEN (IF a.concluida THEN 1 ELSE -1)
  ELSE PesoPrioridade[a.prioridade] - PesoPrioridade[b.prioridade]

\* The comparator handed to Array.prototype.sort.
Comparar(a, b) ==
  IF a.concluida # b.concluida
  THEN (IF a.concluida THEN 1 ELSE -1)
  ELSE PesoPrioridade[b.prioridade] - PesoPrioridade[a.prioridade]

\* Array.prototype.sort is stable: x goes after every element that does not
\* compare greater than it.
RECURSIVE Inserir(_, _)
Inserir(ordenada, x) ==
  IF ordenada = <<>> THEN <<x>>
  ELSE IF Comparar(ordenada[Len(ordenada)], x) > 0
       THEN Append(Inserir(SubSeq(ordenada, 1, Len(ordenada) - 1), x),
                   ordenada[Len(ordenada)])
       ELSE Append(ordenada, x)

RECURSIVE Ordenar(_)
Ordenar(seq) ==
  IF seq = <<>> THEN <<>>
  ELSE Inserir(Ordenar(SubSeq(seq, 1, Len(seq) - 1)), seq[Len(seq)])

\* renderizarTarefas: the tasks of the container, in the order shown.
RenderizarTarefas(ts, ativo, filtro) ==
  Ordenar(ObterTarefasFiltradas(ts, ativo, filtro))

\* renderizarProjetos: the project entries of the container (their order,
\* decided by localeCompare, is not modelled).
RenderizarProjetos(ps) == { ps[i] : i \in 1..Len(ps) }

\* atualizarOpcoesProjetoNoFormulario: the option values after "Sem projeto".
OpcoesDeProjeto(ps) == [i \in 1..Len(ps) |-> ps[i].id]

\* --------------------------------------------------------------- state
VARIABLES
  tarefas,          \* gerenciadorTarefas.tarefas
  tarefaEditando,   \* gerenciadorTarefas.tarefaEditando
  projetoAtivo,     \* gerenciadorTarefas.projetoAtivo
  filtroAtivo,      \* gerenciadorTarefas.filtroAtivo
  projetos,         \* gerenciadorProjetos.projetos
  projetoEditando,  \* gerenciadorProjetos.projetoEditando
  formTarefaAtivo,  \* #form-tarefa has class "ativo" (is shown)
  formProjetoAtivo, \* #form-projeto has class "ativo" (is shown)
  opcoesProjeto,    \* option values of #projeto-tarefa after "Sem projeto"
  htmlTarefas,      \* tasks rendered in #lista-tarefas, in order
  htmlProjetos,     \* projects rendered in #lista-projetos
  armazenamento,    \* localStorage
  dialogo,          \* alert/confirm of the last handler, and the reply
  relogio,          \* the last value Date.now() gave
  falhaEscrita      \* localStorage.setItem throws (quota, unavailable)

vars ==
  << tarefas, tarefaEditando, projetoAtivo, filtroAtivo, projetos,
     projetoEditando, formTarefaAtivo, formProjetoAtivo, opcoesProjeto,
     htmlTarefas, htmlProjetos, armazenamento, dialogo, relogio,
     falhaEscrita >>

\* Handlers answer distinct user events, which are at least a millisecond
\* apart: a handler that reads the clock reads a later value than the last.
Agora == relogio + 1

GerarIdTarefaSemRelogio(agora, sufixo) == <<PrefixoTarefa, 0, sufixo>>

\* "tarefa_" + Date.now() + "_" + Math.random().toString(36).substr(2, 9)
GerarIdTarefa(agora, sufixo) == <<PrefixoTarefa, agora, sufixo>>

\* "projeto_" + Date.now() + "_" + Math.random().toString(36).substr(2, 9)
GerarIdProjeto(agora, sufixo) == <<PrefixoProjeto, agora, sufixo>>

\* ----------------------------------------------------------- start-up
\* DOMContentLoaded: both managers are constructed from localStorage.
Iniciar(store) ==
  /\ projetos = CarregarProjetos(store)
  /\ projetoEditando = <<>>
  /\ htmlProjetos = RenderizarProjetos(CarregarProjetos(store))
  /\ tarefas = CarregarTarefas(store)
  /\ tarefaEditando = <<>>
  /\ projetoAtivo = Todos
  /\ filtroAtivo = "todas"
  /\ htmlTarefas = RenderizarTarefas(CarregarTarefas(store), Todos, "todas")
  /\ formTarefaAtivo = FALSE
  /\ formProjetoAtivo = FALSE
  /\ opcoesProjeto = <<>>
  /\ dialogo = "nenhum"

Init ==
  /\ armazenamento = ArmazenamentoVazio
  /\ relogio = 0
  /\ falhaEscrita = FALSE
  /\ Iniciar(ArmazenamentoVazio)

RecarregarComFiltros ==
  /\ dialogo = "nenhum"
  /\ projetos' = CarregarProjetos(armazenamento)
  /\ projetoEditando' = <<>>
  /\ htmlProjetos' = RenderizarProjetos(CarregarProjetos(armazenamento))
  /\ tarefas' = CarregarTarefas(armazenamento)
  /\ tarefaEditando' = <<>>
  /\ htmlTarefas' =
       RenderizarTarefas(CarregarTarefas(armazenamento), projetoAtivo,
                         filtroAtivo)
  /\ formTarefaAtivo' = FALSE
  /\ formProjetoAtivo' = FALSE
  /\ opcoesProjeto' = <<>>
  /\ dialogo' = "nenhum"
  /\ UNCHANGED <<projetoAtivo, filtroAtivo, armazenamento, relogio,
                 falhaEscrita>>

\* The page is reloaded.
Recarregar ==
  /\ dialogo = "nenhum"
  /\ projetos' = CarregarProjetos(armazenamento)
  /\ projetoEditando' = <<>>
  /\ htmlProjetos' = RenderizarProjetos(CarregarProjetos(armazenamento))
  /\ tarefas' = CarregarTarefas(armazenamento)
  /\ tarefaEditando' = <<>>
  /\ projetoAtivo' = Todos
  /\ filtroAtivo' = "todas"
  /\ htmlTarefas' =
       RenderizarTarefas(CarregarTarefas(armazenamento), Todos, "todas")
  /\ formTarefaAtivo' = FALSE
  /\ formProjetoAtivo' = FALSE
  /\ opcoesProjeto' = <<>>
  /\ dialogo' = "nenhum"
  /\ UNCHANGED <<armazenamento, relogio, falhaEscrita>>

\* ------------------------------------------------- GerenciadorTarefas
\* mostrarFormulario(tarefa): alvo is <<>> ("new task" button) or <<t>>, t a
\* task of the rendered list (its edit button).
MostrarFormularioTarefa(alvo) ==
  /\ dialogo = "nenhum"
  /\ opcoesProjeto' = OpcoesDeProjeto(projetos)
  /\ tarefaEditando' = alvo
  /\ formTarefaAtivo' = TRUE
  /\ dialogo' = "nenhum"
  /\ UNCHANGED << tarefas, projetoAtivo, filtroAtivo, projetos,
                  projetoEditando, formProjetoAtivo, htmlTarefas,
                  htmlProjetos, armazenamento, relogio, falhaEscrita >>

CancelarEdicaoTarefaSemLimpar ==
  /\ formTarefaAtivo' = FALSE
  /\ tarefaEditando' = tarefaEditando

\* The body of cancelarEdicao(): the form is hidden, the target forgotten.
CancelarEdicaoTarefaCorpo ==
  /\ formTarefaAtivo' = FALSE
  /\ tarefaEditando' = <<>>

\* cancelarEdicao(), from the form's cancel button.
CancelarEdicaoTarefa ==
  /\ dialogo = "nenhum"
  /\ formTarefaAtivo
  /\ CancelarEdicaoTarefaCorpo
  /\ dialogo' = "nenhum"
  /\ UNCHANGED << tarefas, projetoAtivo, filtroAtivo, projetos,
                  projetoEditando, formProjetoAtivo, opcoesProjeto,
                  htmlTarefas, htmlProjetos, armazenamento, relogio,
                  falhaEscrita >>

DadosTarefaSemNull(titulo, descricao, dataVencimento, prioridade, projetoId, agora) ==
  [ titulo |-> titulo,
    descricao |-> descricao,
    dataVencimento |-> dataVencimento,
    prioridade |-> prioridade,
    projetoId |-> projetoId,
    concluida |-> FALSE,
    dataCriacao |-> ToISOString(agora) ]

\* dadosTarefa of salvarTarefa.
DadosTarefa(titulo, descricao, dataVencimento, prioridade, projetoId, agora) ==
  [ titulo |-> titulo,
    descricao |-> descricao,
    dataVencimento |-> dataVencimento,
    prioridade |-> prioridade,
    projetoId |-> IF projetoId = VAZIO THEN NULL ELSE projetoId,
    concluida |-> FALSE,
    dataCriacao |-> ToISOString(agora) ]

\* { ...this.tarefas[indice], ...dadosTarefa }
Mesclar(antiga, dados) ==
  [ id |-> antiga.id,
    titulo |-> dados.titulo,
    descricao |-> dados.descricao,
    dataVencimento |-> dados.dataVencimento,
    prioridade |-> dados.prioridade,
    projetoId |-> dados.projetoId,
    concluida |-> dados.concluida,
    dataCriacao |-> dados.dataCriacao ]

\* { id: this.gerarId(), ...dadosTarefa }
NovaTarefa(id, dados) ==
  [ id |-> id,
    titulo |-> dados.titulo,
    descricao |-> dados.descricao,
    dataVencimento |-> dados.dataVencimento,
    prioridade |-> dados.prioridade,
    projetoId |-> dados.projetoId,
    concluida |-> dados.concluida,
    dataCriacao |-> dados.dataCriacao ]

TarefasAposSalvarRecria(ts, editando, dados, novoId) ==
  IF editando # <<>>
  THEN LET indice == FindIndex(ts, editando[1].id)
       IN IF indice # 0
          THEN [ts EXCEPT ![indice] = Mesclar(ts[indice], dados)]
          ELSE Append(ts, Mesclar(editando[1], dados))
  ELSE Append(ts, NovaTarefa(novoId, dados))

\* The task list salvarTarefa leaves, once the title is accepted.
TarefasAposSalvar(ts, editando, dados, novoId) ==
  IF editando # <<>>
  THEN LET indice == FindIndex(ts, editando[1].id)
       IN IF indice # 0
          THEN [ts EXCEPT ![indice] = Mesclar(ts[indice], dados)]
          ELSE ts
  ELSE Append(ts, NovaTarefa(novoId, dados))

\* salvarTarefa(), from the form's submit: f is the typed text, projetoSel
\* the chosen option of #projeto-tarefa, sufixo the draw of Math.random.
SalvarTarefa(f, projetoSel, sufixo) ==
  /\ dialogo = "nenhum"
  /\ formTarefaAtivo
  /\ LET titulo == Trim(f.titulo)
         descricao == Trim(f.descricao)
     IN IF titulo = VAZIO
        THEN /\ dialogo' = "alertaTitulo"
             /\ UNCHANGED << tarefas, tarefaEditando, projetoAtivo,
                             filtroAtivo, projetos, projetoEditando,
                             formTarefaAtivo, formProjetoAtivo,
                             opcoesProjeto, htmlTarefas, htmlProjetos,
                             armazenamento, relogio, falhaEscrita >>
        ELSE /\ relogio < MaxRelogio
             /\ tarefaEditando = <<>> => Len(tarefas) < MaxTarefas
             /\ relogio' = Agora
             /\ tarefas' =
                  TarefasAposSalvar(
                    tarefas, tarefaEditando,
                    DadosTarefa(titulo, descricao, f.dataVencimento,
                                f.prioridade, projetoSel, Agora),
                    GerarIdTarefa(Agora, sufixo))
             /\ armazenamento' =
                  Salvar(armazenamento, "tarefas", StringifyTarefas(tarefas'),
                         falhaEscrita)
             /\ htmlTarefas' =
                  RenderizarTarefas(tarefas', projetoAtivo, filtroAtivo)
             /\ CancelarEdicaoTarefaCorpo
             /\ dialogo' = "nenhum"
             /\ UNCHANGED << projetoAtivo, filtroAtivo, projetos,
                             projetoEditando, formProjetoAtivo,
                             opcoesProjeto, htmlProjetos, falhaEscrita >>

AlternarParaConcluida(ts, id) ==
  LET indice == FindIndex(ts, id)
  IN IF indice = 0 THEN ts ELSE [ts EXCEPT ![indice].concluida = TRUE]

\* tarefa.concluida = !tarefa.concluida on the first task with this id.
Alternar(ts, id) ==
  LET indice == FindIndex(ts, id)
  IN IF indice = 0 THEN ts
     ELSE [ts EXCEPT ![indice].concluida = ~ts[indice].concluida]

\* alternarConclusao(id), from the checkbox of a rendered task.
AlternarConclusao(id) ==
  /\ dialogo = "nenhum"
  /\ dialogo' = "nenhum"
  /\ IF FindIndex(tarefas, id) # 0
     THEN /\ tarefas' = Alternar(tarefas, id)
          /\ armazenamento' =
               Salvar(armazenamento, "tarefas", StringifyTarefas(tarefas'),
                      falhaEscrita)
          /\ htmlTarefas' =
               RenderizarTarefas(tarefas', projetoAtivo, filtroAtivo)
     ELSE UNCHANGED <<tarefas, armazenamento, htmlTarefas>>
  /\ UNCHANGED << tarefaEditando, projetoAtivo, filtroAtivo, projetos,
                  projetoEditando, formTarefaAtivo, formProjetoAtivo,
                  opcoesProjeto, htmlProjetos, relogio, falhaEscrita >>

\* removerTarefa(id), from the delete button of a rendered task; confirma is
\* the reply to confirm().
RemoverTarefa(id, confirma) ==
  /\ dialogo = "nenhum"
  /\ dialogo' = IF confirma THEN "confirmouTarefa" ELSE "recusouTarefa"
  /\ IF confirma /\ FindIndex(tarefas, id) # 0
     THEN /\ tarefas' = Splice(tarefas, FindIndex(tarefas, id))
          /\ armazenamento' =
               Salvar(armazenamento, "tarefas", StringifyTarefas(tarefas'),
                      falhaEscrita)
          /\ htmlTarefas' =
               RenderizarTarefas(tarefas', projetoAtivo, filtroAtivo)
     ELSE UNCHANGED <<tarefas, armazenamento, htmlTarefas>>
  /\ UNCHANGED << tarefaEditando, projetoAtivo, filtroAtivo, projetos,
                  projetoEditando, formTarefaAtivo, formProjetoAtivo,
                  opcoesProjeto, htmlProjetos, relogio, falhaEscrita >>

\* aplicarFiltro(filtro), from a filter control.
AplicarFiltro(filtro) ==
  /\ dialogo = "nenhum"
  /\ filtroAtivo' = filtro
  /\ htmlTarefas' = RenderizarTarefas(tarefas, projetoAtivo, filtro)
  /\ dialogo' = "nenhum"
  /\ UNCHANGED << tarefas, tarefaEditando, projetoAtivo, projetos,
                  projetoEditando, formTarefaAtivo, formProjetoAtivo,
                  opcoesProjeto, htmlProjetos, armazenamento, relogio,
                  falhaEscrita >>

\* definirProjetoAtivo(projetoId)
DefinirProjetoAtivo(projetoId) ==
  /\ projetoAtivo' = projetoId
  /\ htmlTarefas' = RenderizarTarefas(tarefas', projetoId, filtroAtivo)

\* ------------------------------------------------ GerenciadorProjetos
\* mostrarFormulario(projeto): alvo is <<>> ("new project" button) or <<p>>,
\* p a project of the rendered list (its edit button).
MostrarFormularioProjeto(alvo) ==
  /\ dialogo = "nenhum"
  /\ projetoEditando' = alvo
  /\ formProjetoAtivo' = TRUE
  /\ dialogo' = "nenhum"
  /\ UNCHANGED << tarefas, tarefaEditando, projetoAtivo, filtroAtivo,
                  projetos, formTarefaAtivo, opcoesProjeto, htmlTarefas,
                  htmlProjetos, armazenamento, relogio, falhaEscrita >>

CancelarEdicaoProjetoSemOcultar ==
  /\ formProjetoAtivo' = formProjetoAtivo
  /\ projetoEditando' = <<>>

\* The body of cancelarEdicao(): the form is hidden, the target forgotten.
CancelarEdicaoProjetoCorpo ==
  /\ formProjetoAtivo' = FALSE
  /\ projetoEditando' = <<>>

\* cancelarEdicao(), from the form's cancel button.
CancelarEdicaoProjeto ==
  /\ dialogo = "nenhum"
  /\ formProjetoAtivo
  /\ CancelarEdicaoProjetoCorpo
  /\ dialogo' = "nenhum"
  /\ UNCHANGED << tarefas, tarefaEditando, projetoAtivo, filtroAtivo,
                  projetos, formTarefaAtivo, opcoesProjeto, htmlTarefas,
                  htmlProjetos, armazenamento, relogio, falhaEscrita >>

MesmoNomeDeQualquer(p, nome, editando) ==
  ToLowerCase(p.nome) = ToLowerCase(nome)

MesmoNomeSensivel(p, nome, editando) ==
  /\ p.nome = nome
  /\ (editando = <<>> \/ p.id # editando[1].id)

\* p.nome.toLowerCase() === nome.toLowerCase() &&
\* (!this.projetoEditando || p.id !== this.projetoEditando.id)
MesmoNome(p, nome, editando) ==
  /\ ToLowerCase(p.nome) = ToLowerCase(nome)
  /\ (editando = <<>> \/ p.id # editando[1].id)

\* projetoExistente of adicionarProjeto, as a truth value.
ProjetoExistente(ps, nome, editando) ==
  \E i \in 1..Len(ps) : MesmoNome(ps[i], nome, editando)

\* The project list adicionarProjeto leaves, once the name is accepted.
ProjetosAposAdicionar(ps, editando, nome, novoId, agora) ==
  IF editando # <<>>
  THEN LET indice == FindIndex(ps, editando[1].id)
       IN IF indice # 0 THEN [ps EXCEPT ![indice].nome = nome] ELSE ps
  ELSE Append(ps, [id |-> novoId, nome |-> nome,
                   dataCriacao |-> ToISOString(agora)])

\* adicionarProjeto(), from the form's submit: nomeDigitado is the typed
\* text, sufixo the draw of Math.random.
AdicionarProjeto(nomeDigitado, sufixo) ==
  /\ dialogo = "nenhum"
  /\ formProjetoAtivo
  /\ LET nome == Trim(nomeDigitado)
     IN IF nome = VAZIO \/ ProjetoExistente(projetos, nome, projetoEditando)
        THEN /\ dialogo' =
                  IF nome = VAZIO THEN "alertaNome" ELSE "alertaDuplicado"
             /\ UNCHANGED << tarefas, tarefaEditando, projetoAtivo,
                             filtroAtivo, projetos, projetoEditando,
                             formTarefaAtivo, formProjetoAtivo,
                             opcoesProjeto, htmlTarefas, htmlProjetos,
                             armazenamento, relogio, falhaEscrita >>
        ELSE /\ projetoEditando = <<>> =>
                  /\ relogio < MaxRelogio
                  /\ Len(projetos) < MaxProjetos
             /\ relogio' = IF projetoEditando = <<>> THEN Agora ELSE relogio
             /\ projetos' =
                  ProjetosAposAdicionar(
                    projetos, projetoEditando, nome,
                    GerarIdProjeto(Agora, sufixo), Agora)
             /\ armazenamento' =
                  Salvar(armazenamento, "projetos",
                         StringifyProjetos(projetos'), falhaEscrita)
             /\ htmlProjetos' = RenderizarProjetos(projetos')
             /\ CancelarEdicaoProjetoCorpo
             /\ opcoesProjeto' = OpcoesDeProjeto(projetos')
             /\ dialogo' = "nenhum"
             /\ UNCHANGED << tarefas, tarefaEditando, projetoAtivo,
                             filtroAtivo, formTarefaAtivo, htmlTarefas,
                             falhaEscrita >>

\* gerenciadorTarefas.tarefas.filter((t) => t.projetoId === id), as indices.
TarefasAssociadas(ts, id) == { i \in 1..Len(ts) : ts[i].projetoId = id }

AnularProjetoEmCascata(ts, id) == SelectSeq(ts, LAMBDA t : t.projetoId # id)

\* tarefasAssociadas.forEach((tarefa) => { tarefa.projetoId = null; })
AnularProjeto(ts, id) ==
  [ i \in 1..Len(ts) |->
      IF i \in TarefasAssociadas(ts, id)
      THEN [ts[i] EXCEPT !.projetoId = NULL]
      ELSE ts[i] ]

EscritasAoRemoverProjetosAntes(store, ts, ps, falha) ==
  LET primeira == Salvar(store, "projetos", StringifyProjetos(ps), falha)
  IN << primeira, Salvar(primeira, "tarefas", StringifyTarefas(ts), falha) >>

\* The two writes of a removerProjeto that goes ahead, in their order:
\* what localStorage holds after gerenciadorTarefas.salvarTarefas() and
\* then after this.salvarProjetos(); ts and ps are the lists written.
EscritasAoRemover(store, ts, ps, falha) ==
  LET primeira == Salvar(store, "tarefas", StringifyTarefas(ts), falha)
  IN << primeira, Salvar(primeira, "projetos", StringifyProjetos(ps), falha) >>

ConfirmarSempre(pergunta, confirma) == TRUE

\* let confirmar = true; if (tarefasAssociadas.length > 0) confirmar =
\* confirm(...): pergunta says whether tasks are associated, confirma is the
\* user's reply.
Confirmar(pergunta, confirma) == IF pergunta THEN confirma ELSE TRUE

ProjetoAtivoAposRemoverEsquecido(ativo, id) == ativo

\* if (gerenciadorTarefas.projetoAtivo === id) this.selecionarProjeto("todos")
ProjetoAtivoAposRemover(ativo, id) == IF ativo = id THEN Todos ELSE ativo

\* The body of removerProjeto(id); confirma is the reply to confirm(), asked
\* when tasks are associated.
RemoverProjetoCorpo(id, confirma) ==
  IF FindIndex(projetos, id) = 0
  THEN /\ dialogo' = "nenhum"
       /\ UNCHANGED << tarefas, tarefaEditando, projetoAtivo, filtroAtivo,
                       projetos, projetoEditando, formTarefaAtivo,
                       formProjetoAtivo, opcoesProjeto, htmlTarefas,
                       htmlProjetos, armazenamento, relogio, falhaEscrita >>
  ELSE LET pergunta == TarefasAssociadas(tarefas, id) # {}
           confirmar == Confirmar(pergunta, confirma)
       IN /\ dialogo' =
               IF ~pergunta THEN "nenhum"
               ELSE IF confirma THEN "confirmouProjeto"
               ELSE "recusouProjeto"
          /\ IF confirmar
             THEN /\ tarefas' = AnularProjeto(tarefas, id)
                  /\ projetos' = Splice(projetos, FindIndex(projetos, id))
                  /\ armazenamento' =
                       EscritasAoRemover(armazenamento, tarefas', projetos',
                                         falhaEscrita)[2]
                  /\ htmlProjetos' = RenderizarProjetos(projetos')
                  /\ DefinirProjetoAtivo(
                       ProjetoAtivoAposRemover(projetoAtivo, id))
                  /\ opcoesProjeto' = OpcoesDeProjeto(projetos')
             ELSE UNCHANGED << tarefas, projetos, armazenamento,
                               htmlProjetos, projetoAtivo, htmlTarefas,
                               opcoesProjeto >>
          /\ UNCHANGED << tarefaEditando, filtroAtivo, projetoEditando,
                          formTarefaAtivo, formProjetoAtivo, relogio,
                          falhaEscrita >>

\* removerProjeto(id), from the delete button of a rendered project.
RemoverProjeto(id, confirma) ==
  /\ dialogo = "nenhum"
  /\ RemoverProjetoCorpo(id, confirma)

\* selecionarProjeto(projetoId), from a rendered project entry or the
\* "todos" entry.  With the id of no entry, querySelector gives null and
\* reading its classList throws before definirProjetoAtivo is called.
SelecionarProjeto(projetoId) ==
  /\ dialogo = "nenhum"
  /\ UNCHANGED << tarefas, tarefaEditando, filtroAtivo, projetos,
                  projetoEditando, formTarefaAtivo, formProjetoAtivo,
                  opcoesProjeto, htmlProjetos, armazenamento, relogio,
                  falhaEscrita >>
  /\ IF projetoId = Todos \/ projetoId \in { p.id : p \in htmlProjetos }
     THEN DefinirProjetoAtivo(projetoId)
     ELSE UNCHANGED <<projetoAtivo, htmlTarefas>>
  /\ dialogo' = "nenhum"

\* alert() and confirm() block the page: no handler starts while a dialog is
\* open.  The dialog of the last handler closes and the event loop goes on.
FecharDialogo ==
  /\ dialogo # "nenhum"
  /\ dialogo' = "nenhum"
  /\ UNCHANGED << tarefas, tarefaEditando, projetoAtivo, filtroAtivo,
                  projetos, projetoEditando, formTarefaAtivo,
                  formProjetoAtivo, opcoesProjeto, htmlTarefas,
                  htmlProjetos, armazenamento, relogio, falhaEscrita >>

\* ------------------------------------------------------ user events
TarefasNaTela == { htmlTarefas[i] : i \in 1..Len(htmlTarefas) }
OpcoesNoSelect == {VAZIO} \cup { opcoesProjeto[i] : i \in 1..Len(opcoesProjeto) }

\* alternarConclusao, removerTarefa, removerProjeto and selecionarProjeto
\* are methods of the global managers: the inline handlers of the rendered items call them with
\* the item's id, and any other script with any id.  Besides the rendered
\* ids, the calls tried are with the id the open form still holds (its
\* target may have left the list) and with an id no gerarId gave (Date.now()
\* is never 0).
IdsDeTarefaChamados ==
  { t.id : t \in TarefasNaTela }
    \cup { tarefaEditando[k].id : k \in 1..Len(tarefaEditando) }
    \cup { <<PrefixoTarefa, 0, 0>> }

IdsDeProjetoChamados ==
  { p.id : p \in htmlProjetos }
    \cup { projetoEditando[k].id : k \in 1..Len(projetoEditando) }
    \cup { <<PrefixoProjeto, 0, 0>> }

Next ==
  \/ MostrarFormularioTarefa(<<>>)
  \/ \E t \in TarefasNaTela : MostrarFormularioTarefa(<<t>>)
  \/ CancelarEdicaoTarefa
  \/ \E f \in FormulariosDigitados, o \in OpcoesNoSelect, s \in Sufixos :
       SalvarTarefa(f, o, s)
  \/ \E id \in IdsDeTarefaChamados : AlternarConclusao(id)
  \/ \E id \in IdsDeTarefaChamados, c \in BOOLEAN : RemoverTarefa(id, c)
  \/ \E f \in FiltrosClicados : AplicarFiltro(f)
  \/ MostrarFormularioProjeto(<<>>)
  \/ \E p \in htmlProjetos : MostrarFormularioProjeto(<<p>>)
  \/ CancelarEdicaoProjeto
  \/ \E n \in NomesDigitados, s \in Sufixos : AdicionarProjeto(n, s)
  \/ \E id \in IdsDeProjetoChamados, c \in BOOLEAN : RemoverProjeto(id, c)
  \/ \E id \in IdsDeProjetoChamados : SelecionarProjeto(id)
  \/ SelecionarProjeto(Todos)
  \/ Recarregar
  \/ FecharDialogo

Spec == Init /\ [][Next]_vars

\* ------------------------------------- the list views, on any task list
\* A store as the handlers leave it: one project, and up to MaxLista tasks
\* created one after the other, each pending or completed and of any
\* priority; the odd ones are in the project, the even ones in none.
ProjetoDaLista ==
  [ id |-> GerarIdProjeto(1, 0), nome |-> <<72>>,
    dataCriacao |-> ToISOString(1) ]

FormasDeTarefa == BOOLEAN \X Prioridades

TarefaDaLista(i, forma) ==
  [ id |-> GerarIdTarefa(i + 1, 0),
    titulo |-> IF i % 2 = 1 THEN <<65>> ELSE <<66>>,
    descricao |-> IF i % 2 = 1 THEN <<>> ELSE <<100>>,
    dataVencimento |-> IF i % 2 = 1 THEN <<>> ELSE <<50, 48>>,
    prioridade |-> forma[2],
    projetoId |-> IF i % 2 = 1 THEN ProjetoDaLista.id ELSE NULL,
    concluida |-> forma[1],
    dataCriacao |-> ToISOString(i + 1) ]

RECURSIVE ListasDe(_)
ListasDe(n) ==
  IF n = 0 THEN {<<>>}
  ELSE { Append(ts, TarefaDaLista(n, forma)) :
           ts \in ListasDe(n - 1), forma \in FormasDeTarefa }

ListasDeTarefas == UNION { ListasDe(n) : n \in 0..MaxLista }

InitLista ==
  \E ts \in ListasDeTarefas :
    /\ tarefas = ts
    /\ projetos = <<ProjetoDaLista>>
    /\ armazenamento =
         Salvar(
           Salvar(ArmazenamentoVazio, "projetos",
                  StringifyProjetos(<<ProjetoDaLista>>), FALSE),
           "tarefas", StringifyTarefas(ts), FALSE)
    /\ relogio = MaxLista + 1
    /\ falhaEscrita = FALSE
    /\ projetoEditando = <<>>
    /\ htmlProjetos = RenderizarProjetos(<<ProjetoDaLista>>)
    /\ tarefaEditando = <<>>
    /\ projetoAtivo = Todos
    /\ filtroAtivo = "todas"
    /\ htmlTarefas = RenderizarTarefas(ts, Todos, "todas")
    /\ formTarefaAtivo = FALSE
    /\ formProjetoAtivo = FALSE
    /\ opcoesProjeto = OpcoesDeProjeto(<<ProjetoDaLista>>)
    /\ dialogo = "nenhum"

NextLista ==
  \/ \E f \in Filtros : AplicarFiltro(f)
  \/ \E p \in htmlProjetos : SelecionarProjeto(p.id)
  \/ SelecionarProjeto(Todos)
  \/ Recarregar

SpecLista == InitLista /\ [][NextLista]_vars

\* --------------------------------- the forms, opened and cancelled only
\* The page starts from a store the handlers left (one project, MaxTarefas
\* tasks); the forms are shown and cancelled, the views changed, and nothing
\* is submitted.
InitFormulario ==
  \E ts \in ListasDe(MaxTarefas) :
    /\ armazenamento =
         Salvar(
           Salvar(ArmazenamentoVazio, "projetos",
                  StringifyProjetos(<<ProjetoDaLista>>), FALSE),
           "tarefas", StringifyTarefas(ts), FALSE)
    /\ relogio = MaxTarefas + 1
    /\ falhaEscrita = FALSE
    /\ Iniciar(armazenamento)

NextFormulario ==
  \/ MostrarFormularioTarefa(<<>>)
  \/ \E t \in TarefasNaTela : MostrarFormularioTarefa(<<t>>)
  \/ CancelarEdicaoTarefa
  \/ MostrarFormularioProjeto(<<>>)
  \/ \E p \in htmlProjetos : MostrarFormularioProjeto(<<p>>)
  \/ CancelarEdicaoProjeto
  \/ \E f \in FiltrosClicados : AplicarFiltro(f)
  \/ \E p \in htmlProjetos : SelecionarProjeto(p.id)
  \/ SelecionarProjeto(Todos)

SpecFormulario == InitFormulario /\ [][NextFormulario]_vars

\* ------------------------------ projects selected and deleted, on a store
\* The page starts from a store the handlers left: two projects and
\* MaxTarefas tasks, the odd ones in the first project.  Projects are
\* selected and deleted, the filter changed, the page reloaded.
OutroProjetoDaLista ==
  [ id |-> GerarIdProjeto(MaxTarefas + 2, 0), nome |-> <<87, 111>>,
    dataCriacao |-> ToISOString(MaxTarefas + 2) ]

InitProjetos ==
  \E ts \in ListasDe(MaxTarefas) :
    /\ armazenamento =
         Salvar(
           Salvar(ArmazenamentoVazio, "projetos",
                  StringifyProjetos(<<ProjetoDaLista, OutroProjetoDaLista>>),
                  FALSE),
           "tarefas", StringifyTarefas(ts), FALSE)
    /\ relogio = MaxTarefas + 2
    /\ falhaEscrita = FALSE
    /\ Iniciar(armazenamento)

NextProjetos ==
  \/ \E id \in IdsDeProjetoChamados : SelecionarProjeto(id)
  \/ SelecionarProjeto(Todos)
  \/ \E id \in IdsDeProjetoChamados, c \in BOOLEAN : RemoverProjeto(id, c)
  \/ \E f \in FiltrosClicados : AplicarFiltro(f)
  \/ FecharDialogo
  \/ Recarregar

SpecProjetos == InitProjetos /\ [][NextProjetos]_vars

\* ----------------------------------------- the store that stops writing
\* From some moment on localStorage.setItem throws (the quota is used up,
\* the storage is disabled).
FalharEscrita ==
  /\ dialogo = "nenhum"
  /\ ~falhaEscrita
  /\ falhaEscrita' = TRUE
  /\ UNCHANGED << tarefas, tarefaEditando, projetoAtivo, filtroAtivo,
                  projetos, projetoEditando, formTarefaAtivo,
                  formProjetoAtivo, opcoesProjeto, htmlTarefas,
                  htmlProjetos, armazenamento, dialogo, relogio >>

\* The typed texts tried here pass `if (!titulo)` and `if (!nome)`: the task
\* form whose title has text around which trim() cuts spaces, and the names
\* that are not blank.
FormulariosAceitos ==
  { f \in FormulariosDigitados :
      Trim(f.titulo) # VAZIO /\ Trim(f.titulo) # f.titulo }

NomesAceitos == { n \in NomesDigitados : Trim(n) # VAZIO }

\* The handlers that write to the store, with the inputs that take them to
\* the write (an accepted text, a confirmed deletion), and the failure.
NextFalha ==
  \/ MostrarFormularioTarefa(<<>>)
  \/ \E t \in TarefasNaTela : MostrarFormularioTarefa(<<t>>)
  \/ \E f \in FormulariosAceitos, o \in OpcoesNoSelect, s \in Sufixos :
       SalvarTarefa(f, o, s)
  \/ \E t \in TarefasNaTela : AlternarConclusao(t.id)
  \/ \E t \in TarefasNaTela : RemoverTarefa(t.id, TRUE)
  \/ MostrarFormularioProjeto(<<>>)
  \/ \E p \in htmlProjetos : MostrarFormularioProjeto(<<p>>)
  \/ \E n \in NomesAceitos, s \in Sufixos : AdicionarProjeto(n, s)
  \/ \E p \in htmlProjetos : RemoverProjeto(p.id, TRUE)
  \/ FecharDialogo
  \/ FalharEscrita

SpecFalha == Init /\ [][NextFalha]_vars

\* ============================================================== claims

\* C1: referential integrity.  From empty stores, after any sequence of user
\* operations, every task's projetoId is null or the id of a project that is
\* in the project list.
C1_IntegridadeReferencial ==
  \A i \in 1..Len(tarefas) :
    tarefas[i].projetoId = NULL \/ tarefas[i].projetoId \in Ids(projetos)

\* A project with a task was deleted on confirmation: its task is orphaned.
C1_Witness ==
  /\ dialogo = "confirmouProjeto"
  /\ \E i \in 1..Len(tarefas) : tarefas[i].projetoId = NULL

\* C2: project names are unique case-insensitively, after any sequence of
\* project create, rename and delete operations.
C2_NomesUnicos ==
  \A i, j \in 1..Len(projetos) :
    i # j => ToLowerCase(projetos[i].nome) # ToLowerCase(projetos[j].nome)

\* Two projects exist and a rename of one to the other's name, in another
\* letter case, was just refused.
C2_Witness ==
  /\ Len(projetos) = 2
  /\ dialogo = "alertaDuplicado"
  /\ projetoEditando # <<>>
  /\ \E i \in 1..Len(projetos) : projetos[i].nome = <<87, 111>>

\* What a confirmed deletion of project id may change.
C3_Orfas(id) ==
  /\ Len(tarefas') = Len(tarefas)
  /\ \A i \in 1..Len(tarefas) :
       tarefas'[i] =
         IF tarefas[i].projetoId = id
         THEN [tarefas[i] EXCEPT !.projetoId = NULL]
         ELSE tarefas[i]
  /\ id \notin Ids(projetos')
  /\ projetos' = SelectSeq(projetos, LAMBDA p : p.id # id)

C4_Posicao(t) == FindIndex(tarefas, t.id)

\* C4: for every task list, active project and filter, the list shown has the
\* filtered tasks with all pending tasks before all completed ones, within
\* each group by priority alta, media, baixa, and tasks of equal completion
\* and priority in their order of the stored list.
C4_ListaOrdenada ==
  /\ Len(htmlTarefas) =
       Len(ObterTarefasFiltradas(tarefas, projetoAtivo, filtroAtivo))
  /\ TarefasNaTela =
       { tarefas[i] : i \in { k \in 1..Len(tarefas) :
           /\ PassaProjeto(tarefas[k], projetoAtivo)
           /\ PassaFiltro(tarefas[k], filtroAtivo) } }
  /\ \A i, j \in 1..Len(htmlTarefas) :
       i < j =>
         LET a == htmlTarefas[i]
             b == htmlTarefas[j]
         IN /\ a.concluida => b.concluida
            /\ a.concluida = b.concluida =>
                 PesoPrioridade[a.prioridade] >= PesoPrioridade[b.prioridade]
            /\ (a.concluida = b.concluida /\ a.prioridade = b.prioridade) =>
                 C4_Posicao(a) < C4_Posicao(b)

\* The filter pendentes was applied and three tasks are shown: the sort
\* changed the stored order (the low priority stored first is shown last),
\* and the two tasks that tie keep their order.
C4_Witness ==
  /\ filtroAtivo = "pendentes"
  /\ Len(htmlTarefas) = 3
  /\ tarefas[1].prioridade = "baixa"
  /\ tarefas[2].prioridade = "alta" /\ tarefas[3].prioridade = "alta"
  /\ htmlTarefas = <<tarefas[2], tarefas[3], tarefas[1]>>

\* The two conditions a task must meet to be listed.
C5_Aceita(t) ==
  /\ projetoAtivo = Todos \/ t.projetoId = projetoAtivo
  /\ \/ filtroAtivo = "todas"
     \/ filtroAtivo = "pendentes" /\ ~t.concluida
     \/ filtroAtivo = "concluidas" /\ t.concluida
     \/ filtroAtivo \in Prioridades /\ t.prioridade = filtroAtivo

\* C5: the filtered list holds exactly the tasks of the store that are in the
\* active project (or the active project is "todos") and match the active
\* filter ("todas", or the completion flag for pendentes/concluidas, or the
\* priority), each once, none dropped.
C5_FiltroExato ==
  LET filtradas == ObterTarefasFiltradas(tarefas, projetoAtivo, filtroAtivo)
      aceitas == { i \in 1..Len(tarefas) : C5_Aceita(tarefas[i]) }
  IN /\ Len(filtradas) = Cardinality(aceitas)
     /\ { filtradas[k] : k \in 1..Len(filtradas) } =
          { tarefas[i] : i \in aceitas }
     /\ \A k, l \in 1..Len(filtradas) :
          k < l => C4_Posicao(filtradas[k]) < C4_Posicao(filtradas[l])

\* The project is active with the filter pendentes: of three stored tasks
\* exactly one, of high priority and in the project, is returned.
C5_Witness ==
  /\ Len(tarefas) = 3
  /\ projetoAtivo = ProjetoDaLista.id
  /\ filtroAtivo = "pendentes"
  /\ ObterTarefasFiltradas(tarefas, projetoAtivo, filtroAtivo) = <<tarefas[1]>>
  /\ tarefas[1].prioridade = "alta"
  /\ htmlTarefas = <<tarefas[1]>>

\* C9: saving a task list under "tarefas" and loading it again gives the same
\* list: same tasks, ids, field values and order.
C9_IdaEVolta ==
  CarregarTarefas(
    Salvar(ArmazenamentoVazio, "tarefas", StringifyTarefas(tarefas), FALSE))
  = tarefas

\* The page was reloaded (the project options are those of the static page)
\* with a stored list of three tasks, with and without a project, pending
\* and completed; the stored text is the one salvarTarefas writes for it.
C9_Witness ==
  /\ opcoesProjeto = <<>>
  /\ Len(tarefas) = 3
  /\ tarefas[1].concluida /\ ~tarefas[2].concluida
  /\ tarefas[1].projetoId # NULL /\ tarefas[2].projetoId = NULL
  /\ armazenamento.tarefas.presente
  /\ armazenamento.tarefas.texto = StringifyTarefas(tarefas)

\* The list differs only in the concluida flag of the task with this id.
C6_SoConcluida(id) ==
  /\ Len(tarefas') = Len(tarefas)
  /\ \A i \in 1..Len(tarefas) :
       tarefas'[i] =
         IF tarefas[i].id = id
         THEN [tarefas[i] EXCEPT !.concluida = ~tarefas[i].concluida]
         ELSE tarefas[i]

\* C6: one call of alternarConclusao with the id of a task T of the list
\* flips T.concluida and nothing else of the list; a second call right after
\* gives back the list as it was, all fields and the order.
C6_AlternarDuasVezes ==
  [][ \A id \in Ids(tarefas) :
        AlternarConclusao(id) =>
          /\ C6_SoConcluida(id)
          /\ Alternar(tarefas', id) = tarefas ]_vars

\* A task of a list of two was toggled: it is completed, the other is not.
C6_Witness ==
  /\ Len(tarefas) = 2
  /\ tarefas[2].concluida
  /\ ~tarefas[1].concluida
  /\ dialogo = "nenhum"

\* A text that is empty or only spaces.
C7_EmBranco(s) == \A k \in 1..Len(s) : s[k] = Espaco

\* C7: a submit of the task form whose title is empty or only whitespace, in
\* Creating or Editing, shows the validation alert and leaves the task list
\* and the stored "tarefas" value as they were.
C7_TituloObrigatorio ==
  [][ \A f \in FormulariosDigitados, o \in OpcoesNoSelect, s \in Sufixos :
        (SalvarTarefa(f, o, s) /\ C7_EmBranco(f.titulo)) =>
          /\ dialogo' = "alertaTitulo"
          /\ tarefas' = tarefas
          /\ armazenamento'.tarefas = armazenamento.tarefas ]_vars

\* The alert was shown while a task was being edited, the form still open.
C7_Witness ==
  /\ dialogo = "alertaTitulo"
  /\ tarefaEditando # <<>>
  /\ formTarefaAtivo
  /\ Len(tarefas) >= 1

\* The names to refuse, and what a rename to the own name must do.
C8_Rejeita(nome) ==
  \/ nome = VAZIO
  \/ \E i \in 1..Len(projetos) :
       /\ ToLowerCase(projetos[i].nome) = ToLowerCase(nome)
       /\ ~(projetoEditando # <<>> /\ projetos[i].id = projetoEditando[1].id)

C8_ProprioNome(nome) ==
  \A i \in 1..Len(projetos) :
    ( /\ projetoEditando # <<>>
      /\ projetos[i].id = projetoEditando[1].id
      /\ ToLowerCase(projetos[i].nome) = ToLowerCase(nome) )
    => /\ dialogo' = "nenhum"
       /\ Len(projetos') = Len(projetos)
       /\ projetos'[i] = [projetos[i] EXCEPT !.nome = nome]

\* C8: a submit of the project form is rejected (an alert, and the project
\* list and the stored "projetos" value as they were) exactly when the
\* trimmed name is empty or equals, case-insensitively, the name of a project
\* other than the one being edited; a rename of a project to its own name, in
\* any letter case, is accepted and keeps its id and dataCriacao.
C8_NomeValidado ==
  [][ \A n \in NomesDigitados, s \in Sufixos :
        AdicionarProjeto(n, s) =>
          /\ C8_Rejeita(Trim(n)) <=>
               dialogo' \in {"alertaNome", "alertaDuplicado"}
          /\ C8_Rejeita(Trim(n)) =>
               /\ projetos' = projetos
               /\ armazenamento'.projetos = armazenamento.projetos
          /\ ~C8_Rejeita(Trim(n)) =>
               /\ dialogo' = "nenhum"
               /\ projetoEditando = <<>> =>
                    /\ Len(projetos') = Len(projetos) + 1
                    /\ projetos'[Len(projetos')].nome = Trim(n)
               /\ C8_ProprioNome(Trim(n)) ]_vars

\* "Wo" exists and a second project was just refused the name "wo".
C8_Witness ==
  /\ dialogo = "alertaDuplicado"
  /\ projetoEditando = <<>>
  /\ formProjetoAtivo
  /\ Len(projetos) = 1
  /\ projetos[1].nome = <<87, 111>>

\* The ids of a list in order; what a step may do to them.
C10_IdsDe(ts) == [i \in 1..Len(ts) |-> ts[i].id]

C10_IdsUnicos ==
  \A i, j \in 1..Len(tarefas) : i # j => tarefas[i].id # tarefas[j].id

C10_IdsMantidos ==
  \/ C10_IdsDe(tarefas') = C10_IdsDe(tarefas)
  \/ /\ Len(tarefas') = Len(tarefas) + 1
     /\ SubSeq(C10_IdsDe(tarefas'), 1, Len(tarefas)) = C10_IdsDe(tarefas)
     /\ tarefas'[Len(tarefas')].id \notin Ids(tarefas)
  \/ \E k \in 1..Len(tarefas) :
       C10_IdsDe(tarefas') = Splice(C10_IdsDe(tarefas), k)

C11_Persistido ==
  ~falhaEscrita =>
    /\ CarregarTarefas(armazenamento) = tarefas
    /\ CarregarProjetos(armazenamento) = projetos

\* Both keys were written: a completed task of a project, and its project.
C11_Witness ==
  /\ ~falhaEscrita
  /\ armazenamento.tarefas.presente /\ armazenamento.projetos.presente
  /\ Len(projetos) >= 1
  /\ \E i \in 1..Len(tarefas) :
       tarefas[i].concluida /\ tarefas[i].projetoId = projetos[1].id

\* The task the open form edits, as the claim has it after the submit.
C12_Editada(t, f, o) ==
  [ t EXCEPT !.titulo = Trim(f.titulo),
             !.descricao = Trim(f.descricao),
             !.dataVencimento = f.dataVencimento,
             !.prioridade = f.prioridade,
             !.projetoId = IF o = VAZIO THEN NULL ELSE o ]

\* C12: a successful submit of the task form in Editing, for a task T of the
\* list, changes only T's titulo, descricao, dataVencimento, prioridade and
\* projetoId to the form values; T's concluida and dataCriacao, T's place in
\* the list and every other task stay as they were.
C12_EdicaoSoCamposEditados ==
  [][ \A f \in FormulariosDigitados, o \in OpcoesNoSelect, s \in Sufixos :
        ( /\ SalvarTarefa(f, o, s)
          /\ Trim(f.titulo) # VAZIO
          /\ tarefaEditando # <<>>
          /\ FindIndex(tarefas, tarefaEditando[1].id) # 0 )
        => /\ Len(tarefas') = Len(tarefas)
           /\ \A k \in 1..Len(tarefas) :
                tarefas'[k] =
                  IF k = FindIndex(tarefas, tarefaEditando[1].id)
                  THEN C12_Editada(tarefas[k], f, o)
                  ELSE tarefas[k] ]_vars

\* The lists of tasks and of projects are left as they were.
C13_ListasIntactas == tarefas' = tarefas /\ projetos' = projetos

\* C13: an operation on an id that is not in its list changes neither the
\* task list nor the project list: a valid submit of the task (project) form
\* whose target was deleted while the form was open, and a call of
\* alternarConclusao, removerTarefa or removerProjeto with an absent id,
\* whatever the reply to the confirmation.
C13_IdAusenteNaoAltera ==
  [][ /\ \A f \in FormulariosDigitados, o \in OpcoesNoSelect, s \in Sufixos :
           ( /\ tarefaEditando # <<>>
             /\ FindIndex(tarefas, tarefaEditando[1].id) = 0
             /\ Trim(f.titulo) # VAZIO
             /\ SalvarTarefa(f, o, s) )
           => C13_ListasIntactas /\ dialogo' = "nenhum"
      /\ \A n \in NomesDigitados, s \in Sufixos :
           ( /\ projetoEditando # <<>>
             /\ FindIndex(projetos, projetoEditando[1].id) = 0
             /\ ~C8_Rejeita(Trim(n))
             /\ AdicionarProjeto(n, s) )
           => C13_ListasIntactas /\ dialogo' = "nenhum"
      /\ \A id \in IdsDeTarefaChamados \ Ids(tarefas) :
           ( \/ AlternarConclusao(id)
             \/ \E c \in BOOLEAN : RemoverTarefa(id, c) )
           => C13_ListasIntactas
      /\ \A id \in IdsDeProjetoChamados \ Ids(projetos) :
           (\E c \in BOOLEAN : RemoverProjeto(id, c))
           => C13_ListasIntactas /\ dialogo' = "nenhum" ]_vars

\* removerTarefa was called with an id no task has and the user confirmed:
\* a project is there, and "tarefas" was never written, so no task was ever
\* created or removed.
C13_Witness ==
  /\ dialogo = "confirmouTarefa"
  /\ ~armazenamento.tarefas.presente
  /\ tarefas = <<>>
  /\ Len(projetos) = 1

\* C14: a submit of the task form or of the project form that passes the
\* validation ends in Idle (the form hidden, tarefaEditando/projetoEditando
\* null); a submit that fails it (empty title or name, duplicate name) shows
\* the alert and leaves the form as it was: shown, with the same target.
C14_FormularioAposSubmissao ==
  [][ /\ \A f \in FormulariosDigitados, o \in OpcoesNoSelect, s \in Sufixos :
           SalvarTarefa(f, o, s) =>
             IF C7_EmBranco(f.titulo)
             THEN /\ formTarefaAtivo'
                  /\ tarefaEditando' = tarefaEditando
                  /\ dialogo' = "alertaTitulo"
             ELSE /\ ~formTarefaAtivo'
                  /\ tarefaEditando' = <<>>
                  /\ dialogo' = "nenhum"
      /\ \A n \in NomesDigitados, s \in Sufixos :
           AdicionarProjeto(n, s) =>
             IF C8_Rejeita(Trim(n))
             THEN /\ formProjetoAtivo'
                  /\ projetoEditando' = projetoEditando
                  /\ dialogo' \in {"alertaNome", "alertaDuplicado"}
             ELSE /\ ~formProjetoAtivo'
                  /\ projetoEditando' = <<>>
                  /\ dialogo' = "nenhum" ]_vars

\* An empty name was refused while a project of the list was being edited:
\* the form is still shown, with that project as its target.
C14_Witness ==
  /\ dialogo = "alertaNome"
  /\ formProjetoAtivo
  /\ Len(projetos) >= 1
  /\ projetoEditando = <<projetos[1]>>

\* What no cancel may touch.
C15_NadaMuda ==
  /\ tarefas' = tarefas
  /\ projetos' = projetos
  /\ projetoAtivo' = projetoAtivo
  /\ filtroAtivo' = filtroAtivo
  /\ armazenamento' = armazenamento

\* C15: cancelling the task form or the project form, from Creating or
\* Editing, moves that form to Idle and leaves the task list, the project
\* list, the active project, the active filter and both stored values as
\* they were.
C15_CancelarDescarta ==
  [][ /\ CancelarEdicaoTarefa =>
           /\ ~formTarefaAtivo' /\ tarefaEditando' = <<>>
           /\ C15_NadaMuda
      /\ CancelarEdicaoProjeto =>
           /\ ~formProjetoAtivo' /\ projetoEditando' = <<>>
           /\ C15_NadaMuda ]_vars

\* The task form was shown (the project options were filled in, which only
\* mostrarFormulario does here) and is hidden again, its target null: it
\* was cancelled.  The project form is still open on the project.
C15_Witness ==
  /\ opcoesProjeto # <<>>
  /\ ~formTarefaAtivo /\ tarefaEditando = <<>>
  /\ formProjetoAtivo /\ projetoEditando = <<projetos[1]>>
  /\ Len(tarefas) = MaxTarefas
  /\ filtroAtivo = "pendentes"

\* The active project is the sentinel or a project of the list.
C16_AtivoValido == projetoAtivo = Todos \/ projetoAtivo \in Ids(projetos)

\* C16: in every reachable state projetoAtivo is "todos" or the id of a
\* project of the list: a deletion of the active project resets it to
\* "todos", a deletion of any other project leaves it as it was.
C16_ProjetoAtivoExiste ==
  [][ /\ C16_AtivoValido
      /\ C16_AtivoValido'
      /\ \A id \in Ids(projetos) :
           ( /\ \E c \in BOOLEAN : RemoverProjeto(id, c)
             /\ id \notin Ids(projetos') )
           => projetoAtivo' = IF projetoAtivo = id THEN Todos
                              ELSE projetoAtivo ]_vars

\* The first project, which has a task, was deleted on confirmation while
\* the other project was the active one: it still is, and is in the list.
C16_Witness ==
  /\ dialogo = "confirmouProjeto"
  /\ projetos = <<OutroProjetoDaLista>>
  /\ projetoAtivo = OutroProjetoDaLista.id

\* C17: a task leaves the list only in a step whose confirmation the user
\* accepted; a project that tasks reference leaves the list only in such a
\* step, and removerProjeto orphans no task without it; a project that no
\* task references is removed with no confirmation asked; after a declined
\* confirmation the task list, the project list, the active project and
\* both stored values are as they were.
C17_ConfirmacaoProtege ==
  [][ /\ (\E id \in Ids(tarefas) : id \notin Ids(tarefas'))
           => dialogo' = "confirmouTarefa"
      /\ \A id \in Ids(projetos) :
           (id \notin Ids(projetos') /\ TarefasAssociadas(tarefas, id) # {})
           => dialogo' = "confirmouProjeto"
      /\ \A id \in IdsDeProjetoChamados, c \in BOOLEAN :
           (RemoverProjeto(id, c) /\ dialogo' # "confirmouProjeto")
           => tarefas' = tarefas
      /\ \A id \in Ids(projetos), c \in BOOLEAN :
           (RemoverProjeto(id, c) /\ TarefasAssociadas(tarefas, id) = {})
           => /\ id \notin Ids(projetos')
              /\ dialogo' = "nenhum"
      /\ dialogo' \in {"recusouTarefa", "recusouProjeto"}
           => /\ tarefas' = tarefas
              /\ projetos' = projetos
              /\ projetoAtivo' = projetoAtivo
              /\ armazenamento' = armazenamento ]_vars

\* The deletion of an active project with a task was declined: the project,
\* still active, and its task are there.
C17_Witness ==
  /\ dialogo = "recusouProjeto"
  /\ Len(projetos) = 1 /\ Len(tarefas) = 1
  /\ tarefas[1].projetoId = projetos[1].id
  /\ projetoAtivo = projetos[1].id

\* No stored task references a project that is not stored.
C18_PersistidoIntegro(store) ==
  \A i \in 1..Len(CarregarTarefas(store)) :
    \/ CarregarTarefas(store)[i].projetoId = NULL
    \/ CarregarTarefas(store)[i].projetoId \in Ids(CarregarProjetos(store))

\* C18: a removerProjeto that removes the project writes the task list with
\* the nulled projetoIds first, the project list without the project
\* second; and, writes succeeding, no task of the stored "tarefas" value
\* references a project absent from the stored "projetos" value, between
\* handlers and between those two writes.
C18_OrdemDeEscrita ==
  [][ /\ C18_PersistidoIntegro(armazenamento)
      /\ C18_PersistidoIntegro(armazenamento')
      /\ \A id \in Ids(projetos) :
           ( /\ \E c \in BOOLEAN : RemoverProjeto(id, c)
             /\ id \notin Ids(projetos') )
           => LET escritas == EscritasAoRemover(armazenamento, tarefas',
                                                projetos', falhaEscrita)
              IN /\ escritas[1].projetos = armazenamento.projetos
                 /\ CarregarTarefas(escritas[1]) = AnularProjeto(tarefas, id)
                 /\ C18_PersistidoIntegro(escritas[1])
                 /\ escritas[2] = armazenamento'
                 /\ id \notin Ids(CarregarProjetos(escritas[2])) ]_vars

\* Both writes of a confirmed deletion are in the store: the stored task has
\* no project, and no project is stored.
C18_Witness ==
  /\ dialogo = "confirmouProjeto"
  /\ armazenamento.projetos.presente
  /\ CarregarProjetos(armazenamento) = <<>>
  /\ Len(CarregarTarefas(armazenamento)) = 1
  /\ CarregarTarefas(armazenamento)[1].projetoId = NULL

\* C19: while setItem throws, every handler that writes leaves the stored
\* values as they were (the write is dropped, not retried), still changes the
\* list in memory and ends as usual: the form closed, the list re-rendered,
\* no alert.
C19_FalhaNaoPersiste ==
  [][ falhaEscrita =>
        /\ armazenamento' = armazenamento
        /\ \A f \in FormulariosAceitos, o \in OpcoesNoSelect, s \in Sufixos :
             SalvarTarefa(f, o, s) =>
               /\ tarefaEditando = <<>> =>
                    /\ Len(tarefas') = Len(tarefas) + 1
                    /\ tarefas'[Len(tarefas')].titulo = Trim(f.titulo)
               /\ \A k \in 1..Len(tarefas) :
                    (tarefaEditando # <<>> /\ tarefas[k].id = tarefaEditando[1].id)
                    => tarefas'[k].titulo = Trim(f.titulo)
               /\ htmlTarefas' =
                    RenderizarTarefas(tarefas', projetoAtivo, filtroAtivo)
               /\ ~formTarefaAtivo' /\ tarefaEditando' = <<>>
               /\ dialogo' = "nenhum"
        /\ \A id \in Ids(tarefas) :
             /\ AlternarConclusao(id) =>
                  /\ C6_SoConcluida(id)
                  /\ htmlTarefas' =
                       RenderizarTarefas(tarefas', projetoAtivo, filtroAtivo)
             /\ RemoverTarefa(id, TRUE) =>
                  /\ id \notin Ids(tarefas')
                  /\ Len(tarefas') = Len(tarefas) - 1
                  /\ htmlTarefas' =
                       RenderizarTarefas(tarefas', projetoAtivo, filtroAtivo)
        /\ \A n \in NomesAceitos, s \in Sufixos :
             (AdicionarProjeto(n, s) /\ ~C8_Rejeita(Trim(n))) =>
               /\ projetoEditando = <<>> =>
                    /\ Len(projetos') = Len(projetos) + 1
                    /\ projetos'[Len(projetos')].nome = Trim(n)
               /\ \A k \in 1..Len(projetos) :
                    ( /\ projetoEditando # <<>>
                      /\ projetos[k].id = projetoEditando[1].id )
                    => projetos'[k].nome = Trim(n)
               /\ htmlProjetos' = RenderizarProjetos(projetos')
               /\ ~formProjetoAtivo' /\ projetoEditando' = <<>>
               /\ dialogo' = "nenhum"
        /\ \A id \in Ids(projetos) :
             RemoverProjeto(id, TRUE) =>
               /\ C3_Orfas(id)
               /\ htmlProjetos' = RenderizarProjetos(projetos')
               /\ htmlTarefas' =
                    RenderizarTarefas(tarefas', projetoAtivo', filtroAtivo)
    ]_vars

\* The project was stored as "Wo"; then the store failed and the project was
\* renamed to "wo": memory has the new name and the form is closed, the
\* store still has the old one.  A task created since is in memory and on
\* the page, and "tarefas" was never written.
C19_Witness ==
  /\ falhaEscrita
  /\ ~formProjetoAtivo /\ ~formTarefaAtivo
  /\ Len(projetos) = 1
  /\ projetos[1].nome = <<119, 111>>
  /\ Len(CarregarProjetos(armazenamento)) = 1
  /\ CarregarProjetos(armazenamento)[1].nome = <<87, 111>>
  /\ Len(tarefas) = 1 /\ htmlTarefas = tarefas
  /\ ~armazenamento.tarefas.presente

\* C20: selecting an active project or a filter writes nothing to the store
\* and changes neither the task list (its order included: the display sorts
\* a copy) nor the project list; a reload sets the active project to "todos"
\* and the filter to "todas" whatever they were, and the two lists to what
\* the store holds.
C20_FiltrosTransitorios ==
  [][ /\ ( \/ \E f \in Filtros : AplicarFiltro(f)
            \/ \E p \in htmlProjetos : SelecionarProjeto(p.id)
            \/ SelecionarProjeto(Todos) )
           => /\ armazenamento' = armazenamento
              /\ tarefas' = tarefas
              /\ projetos' = projetos
      /\ Recarregar
           => /\ projetoAtivo' = Todos
              /\ filtroAtivo' = "todas"
              /\ tarefas' = CarregarTarefas(armazenamento)
              /\ projetos' = CarregarProjetos(armazenamento)
              /\ armazenamento' = armazenamento ]_vars

\* The project and then the filter pendentes were selected: the page shows
\* the third task before the first, and the list in memory and the stored
\* one are still in the order of creation.
C20_Witness ==
  /\ projetoAtivo = ProjetoDaLista.id
  /\ filtroAtivo = "pendentes"
  /\ Len(tarefas) = 3
  /\ htmlTarefas = <<tarefas[3], tarefas[1]>>
  /\ \A i \in 1..3 : tarefas[i].id = GerarIdTarefa(i + 1, 0)
  /\ CarregarTarefas(armazenamento) = tarefas

\* ------------------------------ the page started on whatever is stored
\* DOMContentLoaded, each of the two reads of localStorage failing or not.
IniciarLendo(store, falhaProjetos, falhaTarefas) ==
  /\ projetos = Carregar(store.projetos, <<>>, falhaProjetos)
  /\ projetoEditando = <<>>
  /\ htmlProjetos =
       RenderizarProjetos(Carregar(store.projetos, <<>>, falhaProjetos))
  /\ tarefas = Carregar(store.tarefas, <<>>, falhaTarefas)
  /\ tarefaEditando = <<>>
  /\ projetoAtivo = Todos
  /\ filtroAtivo = "todas"
  /\ htmlTarefas =
       RenderizarTarefas(Carregar(store.tarefas, <<>>, falhaTarefas), Todos,
                         "todas")
  /\ formTarefaAtivo = FALSE
  /\ formProjetoAtivo = FALSE
  /\ opcoesProjeto = <<>>
  /\ dialogo = "nenhum"

\* The page is reloaded, each of the two reads failing or not.
RecarregarLendo(falhaProjetos, falhaTarefas) ==
  /\ dialogo = "nenhum"
  /\ projetos' = Carregar(armazenamento.projetos, <<>>, falhaProjetos)
  /\ projetoEditando' = <<>>
  /\ htmlProjetos' =
       RenderizarProjetos(
         Carregar(armazenamento.projetos, <<>>, falhaProjetos))
  /\ tarefas' = Carregar(armazenamento.tarefas, <<>>, falhaTarefas)
  /\ tarefaEditando' = <<>>
  /\ projetoAtivo' = Todos
  /\ filtroAtivo' = "todas"
  /\ htmlTarefas' =
       RenderizarTarefas(
         Carregar(armazenamento.tarefas, <<>>, falhaTarefas), Todos, "todas")
  /\ formTarefaAtivo' = FALSE
  /\ formProjetoAtivo' = FALSE
  /\ opcoesProjeto' = <<>>
  /\ dialogo' = "nenhum"
  /\ UNCHANGED <<armazenamento, relogio, falhaEscrita>>

\* The texts salvar wrote for the lists, and those texts cut after some of
\* their objects (a text JSON.parse rejects).
TextosCortados(textos) ==
  UNION { { Append(SubSeq(txt, 1, k), JCortado) : k \in 0..Len(txt) } :
            txt \in textos }

TextosDeTarefas ==
  { StringifyTarefas(ts) : ts \in UNION { ListasDe(n) : n \in 0..MaxTarefas } }

TextosDeProjetos ==
  { StringifyProjetos(ps) :
      ps \in { <<>>, <<ProjetoDaLista>>,
               <<ProjetoDaLista, OutroProjetoDaLista>> } }

\* What localStorage may hold under a key: nothing, a text or a cut text.
EntradasDe(textos) ==
  {Ausente} \cup
  { [presente |-> TRUE, texto |-> txt] :
      txt \in textos \cup TextosCortados(textos) }

InitCarga ==
  \E et \in EntradasDe(TextosDeTarefas), ep \in EntradasDe(TextosDeProjetos),
     falhaProjetos \in BOOLEAN, falhaTarefas \in BOOLEAN :
    /\ armazenamento = [tarefas |-> et, projetos |-> ep]
    /\ relogio = MaxLista + 1
    /\ falhaEscrita = FALSE
    /\ IniciarLendo([tarefas |-> et, projetos |-> ep], falhaProjetos,
                    falhaTarefas)

NextCarga ==
  \/ \E falhaProjetos \in BOOLEAN, falhaTarefas \in BOOLEAN :
       RecarregarLendo(falhaProjetos, falhaTarefas)
  \/ \E f \in Filtros : AplicarFiltro(f)
  \/ \E p \in htmlProjetos : SelecionarProjeto(p.id)
  \/ SelecionarProjeto(Todos)

SpecCarga == InitCarga /\ [][NextCarga]_vars

\* The key holds nothing that can be deserialized: it is absent, or its
\* text has a piece that is no JSON.
C21_SemValor(entrada) ==
  \/ ~entrada.presente
  \/ \E i \in 1..Len(entrada.texto) : entrada.texto[i] = JCortado

\* C21: carregar(chave, valorPadrao) returns the default the caller gave
\* (the empty list of the two managers, or the null of the signature)
\* whenever the key is absent, its text cannot be parsed or the read fails,
\* and otherwise the value whose serialization is the stored text; so a
\* page started or reloaded on an absent or unparsable "tarefas" or
\* "projetos" value has the empty list for it, shows nothing for it, holds
\* no dialog, and has for the other key what the store holds or the empty
\* list.
C21_CarregarPadrao ==
  /\ \A padrao \in {<<>>, NULL}, falha \in BOOLEAN :
       /\ IF falha \/ C21_SemValor(armazenamento.tarefas)
          THEN Carregar(armazenamento.tarefas, padrao, falha) = padrao
          ELSE StringifyTarefas(
                 Carregar(armazenamento.tarefas, padrao, falha))
               = armazenamento.tarefas.texto
       /\ IF falha \/ C21_SemValor(armazenamento.projetos)
          THEN Carregar(armazenamento.projetos, padrao, falha) = padrao
          ELSE StringifyProjetos(
                 Carregar(armazenamento.projetos, padrao, falha))
               = armazenamento.projetos.texto
  /\ IF C21_SemValor(armazenamento.tarefas)
     THEN tarefas = <<>> /\ htmlTarefas = <<>>
     ELSE \/ tarefas = <<>>
          \/ StringifyTarefas(tarefas) = armazenamento.tarefas.texto
  /\ IF C21_SemValor(armazenamento.projetos)
     THEN projetos = <<>> /\ htmlProjetos = {}
     ELSE \/ projetos = <<>>
          \/ StringifyProjetos(projetos) = armazenamento.projetos.texto
  /\ dialogo = "nenhum"

\* The text under "tarefas" was cut after its first task and is still
\* stored; the page started with no task, and with the two projects the
\* store holds.
C21_Witness ==
  /\ armazenamento.tarefas.presente
  /\ Len(armazenamento.tarefas.texto) = 2
  /\ armazenamento.tarefas.texto[2] = JCortado
  /\ tarefas = <<>>
  /\ htmlTarefas = <<>>
  /\ projetos = <<ProjetoDaLista, OutroProjetoDaLista>>
  /\ projetoAtivo = Todos

====
